---- MODULE Spec2Model ----
(***************************************************************************)
(* Model of src/doc.rs of gluon: the documentation generator.              *)
(*                                                                         *)
(*   record()            builds the Record of a module from its type and   *)
(*                       its metadata (a pure function);                   *)
(*   generate()          renders a Module through the template into a      *)
(*                       writer;                                           *)
(*   generate_for_path() walks a directory, type-checks every `.glu` file  *)
(*                       and writes one `.html` file per module.           *)
(*                                                                         *)
(* Two specifications share the module: SpecRecord applies record() to     *)
(* every bounded (type, metadata) pair, Spec runs generate_for_path() over *)
(* bounded directory trees, one file-system operation per step.            *)
(***************************************************************************)
EXTENDS Integers, Sequences, FiniteSets, TLC

VARIABLES
    typ,        \* record(): the ArcType argument
    meta,       \* record(): the Metadata argument
    rec,        \* record(): None before the call, Some(Record) after it
    root,       \* generate_for_path(): the `path` argument
    walk,       \* the entries walkdir yields under `path`, in its order
    idx,        \* position of the `for` loop in walk
    pc,         \* the statement of the loop body that runs next
    result,     \* what generate_for_path() returned ("running" until then)
    disk,       \* regular files written so far: resolved path -> content
    dirs,       \* directories created so far (resolved paths)
    calls,      \* arguments of every typecheck_str call made so far
    run,        \* number of the current call of generate_for_path()
    prev        \* result and disk at the end of the previous call

vars == <<typ, meta, rec, root, walk, idx, pc, result, disk, dirs, calls, run, prev>>

recordVars == <<typ, meta, rec>>
pathVars == <<root, walk, idx, pc, result, disk, dirs, calls, run, prev>>

-----------------------------------------------------------------------------
(* Option<T>: None is the empty sequence, Some(x) the one-element sequence. *)

None == <<>>

Some(x) == <<x>>

unwrap_or(o, d) == IF o = None THEN d ELSE o[1]

-----------------------------------------------------------------------------
(* Bounds *)

MaxFields == 2

MaxWalk == 3

MaxRuns == 2

-----------------------------------------------------------------------------
(* record(): the inputs *)

FieldNames == {"Foo", "bar"}

\* A type as the two texts its Display can produce: as written, and with
\* aliases expanded.
ArcTypes ==
    { [unresolved |-> "Foo", resolved |-> "Int"],
      [unresolved |-> "Int", resolved |-> "Int"] }

CommentTexts == {"", "the foo"}

\* Metadata { comment: Option<String>, module: BTreeMap<String, Metadata> };
\* the nested maps of the entries are never read by record().
MetadataEntries == [comment : {None} \cup {Some(c) : c \in CommentTexts}]

Metadatas ==
    UNION { [module : [D -> MetadataEntries]] : D \in SUBSET FieldNames }

TypeEntries == [name : FieldNames, typ : ArcTypes]

SeqsUpTo(S, n) == UNION { [1..k -> S] : k \in 0..n }

\* A record type: its type fields in declaration order, its row in row order.
RecordTypes ==
    [type_fields : SeqsUpTo(TypeEntries, MaxFields),
     row : SeqsUpTo(TypeEntries, MaxFields)]

type_field_iter(t) == t.type_fields

row_iter(t) == t.row

\* Display of a type: the resolved text.
to_string(t) == t.resolved

\* The aliased type as written: a type whose Display is the unresolved text.
unresolved_type(t) == [unresolved |-> t.unresolved, resolved |-> t.unresolved]

\* meta.module.get(name)
get(map, name) == IF name \in DOMAIN map THEN Some(map[name]) ELSE None

\* Variant of comment_of: another text stands for the missing comment.
comment_of_placeholder(m, name) ==
    LET e == get(m.module, name)
        c == IF e = None THEN None ELSE e[1].comment
    IN unwrap_or(c, "undocumented")

\* meta.module.get(name).and_then(|meta| meta.comment...).unwrap_or("")
comment_of(m, name) ==
    LET entry == get(m.module, name)
        c == IF entry = None THEN None ELSE entry[1].comment
    IN unwrap_or(c, "")

-----------------------------------------------------------------------------
(* record() *)

Map(f(_), s) == [i \in 1..Len(s) |-> f(s[i])]

\* Variant of type_Field: the type field's text is the resolved one.
type_Field_resolved(m, field) ==
    [name |-> field.name,
     typ |-> to_string(field.typ),
     comment |-> comment_of(m, field.name)]

type_Field(m, field) ==
    [name |-> field.name,
     typ |-> to_string(unresolved_type(field.typ)),
     comment |-> comment_of(m, field.name)]

\* Variant of value_Field: the metadata is looked up for type fields only.
value_Field_no_lookup(m, field) ==
    [name |-> field.name,
     typ |-> to_string(field.typ),
     comment |-> ""]

value_Field(m, field) ==
    [name |-> field.name,
     typ |-> to_string(field.typ),
     comment |-> comment_of(m, field.name)]

\* Variant of record: the fields are collected into a map keyed by name, so
\* they come out in name order and one per name.
NameOrder == <<"Foo", "bar">>

by_name(fields) ==
    LET present == SelectSeq(NameOrder, LAMBDA n : \E i \in 1..Len(fields) : fields[i].name = n)
        last(n) == CHOOSE i \in 1..Len(fields) :
                      /\ fields[i].name = n
                      /\ \A j \in (i + 1)..Len(fields) : fields[j].name # n
    IN [k \in 1..Len(present) |-> fields[last(present[k])]]

record_by_name(t, m) ==
    LET tf(field) == type_Field(m, field)
        vf(field) == value_Field(m, field)
    IN [types |-> by_name(Map(tf, type_field_iter(t))),
        values |-> by_name(Map(vf, row_iter(t)))]

record(t, m) ==
    LET tf(field) == type_Field(m, field)
        vf(field) == value_Field(m, field)
    IN [types |-> Map(tf, type_field_iter(t)),
        values |-> Map(vf, row_iter(t))]

-----------------------------------------------------------------------------
(* Paths.  A path is a flag (does it start at the file-system root) and its *)
(* components; a component is a stem and an extension ("" for none).  The   *)
(* component "." is the current directory.                                  *)

Comp(stem, ext) == [stem |-> stem, ext |-> ext]

CurDir == Comp(".", "")

Path(abs, comps) == [abs |-> abs, comps |-> comps]

\* Stems that are not valid UTF-8.
NonUtf8Stems == {"\\xFF"}

\* Path::join: an absolute argument replaces the receiver.
join(base, p) ==
    IF p.abs THEN p ELSE Path(base.abs, base.comps \o p.comps)

\* Path::extension of the last component.
extension(p) ==
    IF p.comps = <<>> \/ p.comps[Len(p.comps)].ext = ""
    THEN None
    ELSE Some(p.comps[Len(p.comps)].ext)

\* Path::with_extension: replaces the extension of the last component.
with_extension(p, ext) ==
    IF p.comps = <<>>
    THEN p
    ELSE Path(p.abs, [p.comps EXCEPT ![Len(p.comps)].ext = ext])

\* Path::parent: None for the empty path and for the root.
parent(p) ==
    IF p.comps = <<>>
    THEN None
    ELSE Some(Path(p.abs, SubSeq(p.comps, 1, Len(p.comps) - 1)))

\* Path::to_str: None when a component is not valid UTF-8.
to_str(p) ==
    IF \E i \in 1..Len(p.comps) : p.comps[i].stem \in NonUtf8Stems
    THEN None
    ELSE Some(p)

\* base::filename_to_module: drops a trailing ".glu" and turns every
\* separator into a dot.  The name is kept as its dot-separated segments.
RECURSIVE Segments(_, _)
Segments(comps, i) ==
    IF i > Len(comps)
    THEN <<>>
    ELSE (IF comps[i].ext = "" \/ (i = Len(comps) /\ comps[i].ext = "glu")
          THEN <<comps[i].stem>>
          ELSE <<comps[i].stem, comps[i].ext>>) \o Segments(comps, i + 1)

filename_to_module(s) ==
    (IF s.abs THEN <<"">> ELSE <<>>) \o Segments(s.comps, 1)

\* The file the operating system finds at a path: "." components change
\* nothing.
RECURSIVE DropCurDir(_)
DropCurDir(comps) ==
    IF comps = <<>>
    THEN <<>>
    ELSE (IF Head(comps) = CurDir THEN <<>> ELSE <<Head(comps)>>)
         \o DropCurDir(Tail(comps))

Resolve(p) == Path(p.abs, DropCurDir(p.comps))

\* The directories on the way to p, p included, outermost first.
Ancestors(p) ==
    [i \in 1..Len(p.comps) |-> Path(p.abs, SubSeq(p.comps, 1, i))]

-----------------------------------------------------------------------------
(* The input trees *)

Roots ==
    { Path(FALSE, <<CurDir>>),
      Path(FALSE, <<Comp("in", "")>>),
      Path(FALSE, <<Comp("in", ""), Comp("sub", "")>>),
      Path(TRUE, <<Comp("in", "")>>) }

\* out_path of generate_for_path().
OutRoot == Path(FALSE, <<Comp("out", "")>>)

SourceTexts == {"decls", "illtyped"}

Entry(rel, is_file, text) == [rel |-> rel, is_file |-> is_file, text |-> text]

\* What may lie under the root: two modules, a file that is not a module,
\* a directory whose name ends in ".glu" with a module in it, and a module
\* whose name is not valid UTF-8.
Candidates ==
    { Entry(<<Comp(s, "glu")>>, TRUE, t) : s \in {"a", "b"}, t \in SourceTexts }
    \cup { Entry(<<Comp("n", "txt")>>, TRUE, "notes"),
           Entry(<<Comp("d", "glu")>>, FALSE, ""),
           Entry(<<Comp("\\xFF", "glu")>>, TRUE, "decls") }
    \cup { Entry(<<Comp("d", "glu"), Comp("c", "glu")>>, TRUE, t) : t \in SourceTexts }

\* walkdir yields every entry once, a directory before its contents.
IsWalk(w) ==
    /\ \A i, j \in 1..Len(w) : i # j => w[i].rel # w[j].rel
    /\ \A j \in 1..Len(w) :
          Len(w[j].rel) > 1 =>
             \E i \in 1..(j - 1) :
                /\ ~w[i].is_file
                /\ w[i].rel = SubSeq(w[j].rel, 1, Len(w[j].rel) - 1)

\* The root itself is the first entry walkdir yields.
Walks ==
    { <<Entry(<<>>, FALSE, "")>> \o w : w \in { v \in SeqsUpTo(Candidates, MaxWalk) : IsWalk(v) } }

\* entry.path(): the root joined with the path below it.
entry_path(r, e) == Path(r.abs, r.comps \o e.rel)

-----------------------------------------------------------------------------
(* The collaborators *)

\* The type and the metadata the checker infers for a source text.
TypOf(text) ==
    [type_fields |-> <<[name |-> "Foo", typ |-> [unresolved |-> "Int", resolved |-> "Int"]]>>,
     row |-> <<[name |-> "bar", typ |-> [unresolved |-> "Foo", resolved |-> "Int"]]>>]

MetaOf(text) == [module |-> [n \in {"Foo"} |-> [comment |-> Some("the foo")]]]

\* Compiler::typecheck_str: None stands for the type error.
typecheck_str(name, text) ==
    IF text = "illtyped" THEN None ELSE Some(TypOf(text))

\* The module name generate_for_path() hands to typecheck_str.
typecheck_name(p) == <<"basic">>

\* handlebars: the template's text around the data.
Render(module) == <<"<html>", module, "</html>">>

\* generate(): what a complete run of it writes.
generate(name, t, m) == Render([name |-> name, record |-> record(t, m)])

-----------------------------------------------------------------------------
(* Results and the file system *)

Running == [status |-> "running", stage |-> "", kind |-> "", context |-> None]

Ok == [status |-> "Ok", stage |-> "", kind |-> "", context |-> None]

\* An error: the statement that raised it, its cause ("io" is a failure of
\* the operating system that the state of the model does not explain) and the
\* path that with_context put in its message, if any.
Err(stage, kind, context) ==
    [status |-> "Err", stage |-> stage, kind |-> kind, context |-> context]

\* with_context(|err| format!("... `{}`: {}", path.display(), err))
with_context(stage, kind, p) == Err(stage, kind, Some(p))

\* `?` on a plain result: the error as it is.
question_mark(stage, kind, p) == Err(stage, kind, None)

\* Variant of create_dir_all_error: create_dir, to which a directory that
\* exists is an error.
create_dir_error(d, ds, p) ==
    IF \/ \E i \in 1..Len(p.comps) : Resolve(Ancestors(p)[i]) \in DOMAIN d
       \/ Resolve(p) \in ds
    THEN Some("AlreadyExists")
    ELSE None

\* std::fs::create_dir_all: the error it ends with, None when it succeeds.
\* A directory that exists is no error; a regular file in the way is.
create_dir_all_error(d, ds, p) ==
    IF \E i \in 1..Len(p.comps) : Resolve(Ancestors(p)[i]) \in DOMAIN d
    THEN Some("AlreadyExists")
    ELSE None

\* ... and the directories that exist after it: the missing ancestors are
\* created outermost first, up to the first regular file in the way.
create_dir_all_dirs(d, ds, p) ==
    ds \cup { Resolve(Ancestors(p)[i]) : i \in
                { j \in 1..Len(p.comps) :
                    \A h \in 1..j : Resolve(Ancestors(p)[h]) \notin DOMAIN d } }

\* File::create: the error it ends with, None when it succeeds.
File_create_error(d, ds, p) ==
    IF Resolve(p) \in ds
    THEN Some("IsADirectory")
    ELSE IF parent(p) # None /\ Resolve(parent(p)[1]) \notin ds
         THEN Some("NotFound")
         ELSE None

\* File::create: the file exists afterwards and is empty.
File_create(d, p) ==
    [q \in DOMAIN d \cup {Resolve(p)} |-> IF q = Resolve(p) THEN <<>> ELSE d[q]]

\* Writing to the open file: the text goes after what the file holds.
write(d, p, text) == [d EXCEPT ![Resolve(p)] = @ \o text]

-----------------------------------------------------------------------------
(* generate_for_path(): the loop body *)

\* Variant of NextStmt: the output file is created before the type check.
NextStmt_create_first(s) ==
    CASE s = "open" -> "read"
      [] s = "read" -> "create_dir_all"
      [] s = "create_dir_all" -> "create"
      [] s = "create" -> "typecheck"
      [] s = "typecheck" -> "name"
      [] s = "name" -> "generate"
      [] s = "generate" -> "loop"

\* The statement that follows a statement that succeeded.
NextStmt(s) ==
    CASE s = "open" -> "read"
      [] s = "read" -> "typecheck"
      [] s = "typecheck" -> "create_dir_all"
      [] s = "create_dir_all" -> "create"
      [] s = "create" -> "name"
      [] s = "name" -> "generate"
      [] s = "generate" -> "loop"

\* The extension a file must have to be documented, and the one of its page.
is_documentable(e) ==
    e.is_file /\ extension(Path(FALSE, e.rel)) = Some("glu")

entry == walk[idx]

cur_path == entry_path(root, entry)

\* out_path.join(entry.path().parent().unwrap_or(Path::new("")))
out_dir(p) == join(OutRoot, unwrap_or(parent(p), Path(FALSE, <<>>)))

\* out_path.join(entry.path().with_extension("html"))
out_file(p) == join(OutRoot, with_extension(p, "html"))

Succeed(s) ==
    /\ pc' = NextStmt(s)
    /\ idx' = IF NextStmt(s) = "loop" THEN idx + 1 ELSE idx
    /\ result' = result

\* `?`: the function returns the error.
Return(r) ==
    /\ pc' = "done"
    /\ result' = r
    /\ idx' = idx

InitPath ==
    /\ root \in Roots
    /\ walk \in Walks
    /\ idx = 1
    /\ pc = "loop"
    /\ result = Running
    /\ disk = <<>>
    /\ dirs = {}
    /\ calls = {}
    /\ run = 1
    /\ prev = [result |-> Running, disk |-> <<>>]

\* The iterator is exhausted: Ok(()).
LoopEnd ==
    /\ pc = "loop" /\ idx > Len(walk)
    /\ Return(Ok)
    /\ UNCHANGED <<recordVars, root, walk, disk, dirs, calls, run, prev>>

\* let entry = entry?: walkdir could not read the entry.
WalkError ==
    /\ pc = "loop" /\ idx <= Len(walk)
    /\ Return(question_mark("walk", "io", cur_path))
    /\ UNCHANGED <<recordVars, root, walk, disk, dirs, calls, run, prev>>

\* Not a file, or not a `.glu` file: continue.
Skip ==
    /\ pc = "loop" /\ idx <= Len(walk)
    /\ ~is_documentable(walk[idx])
    /\ idx' = idx + 1
    /\ UNCHANGED <<recordVars, root, walk, pc, result, disk, dirs, calls, run, prev>>

Select ==
    /\ pc = "loop" /\ idx <= Len(walk)
    /\ is_documentable(walk[idx])
    /\ pc' = "open"
    /\ UNCHANGED <<recordVars, root, walk, idx, result, disk, dirs, calls, run, prev>>

\* File::open(entry.path()).with_context(...)?
Open ==
    /\ pc = "open"
    /\ \/ Succeed("open")
       \/ Return(with_context("open", "io", cur_path))
    /\ UNCHANGED <<recordVars, root, walk, disk, dirs, calls, run, prev>>

\* input.read_to_string(&mut content)?
Read ==
    /\ pc = "read"
    /\ \/ Succeed("read")
       \/ Return(question_mark("read", "io", cur_path))
    /\ UNCHANGED <<recordVars, root, walk, disk, dirs, calls, run, prev>>

\* Compiler::new().typecheck_str(thread, "basic", &content, None)?
\* and metadata(), which cannot fail.
Typecheck ==
    /\ pc = "typecheck"
    /\ calls' = calls \cup {[path |-> cur_path, module |-> typecheck_name(cur_path)]}
    /\ IF typecheck_str(typecheck_name(cur_path), entry.text) = None
       THEN Return(question_mark("typecheck", "type error", cur_path))
       ELSE Succeed("typecheck")
    /\ UNCHANGED <<recordVars, root, walk, disk, dirs, run, prev>>

\* create_dir_all(...)?
CreateDirAll ==
    /\ pc = "create_dir_all"
    /\ \/ /\ create_dir_all_error(disk, dirs, out_dir(cur_path)) = None
          /\ dirs' = create_dir_all_dirs(disk, dirs, out_dir(cur_path))
          /\ Succeed("create_dir_all")
       \/ /\ create_dir_all_error(disk, dirs, out_dir(cur_path)) # None
          /\ dirs' = create_dir_all_dirs(disk, dirs, out_dir(cur_path))
          /\ Return(question_mark("create_dir_all",
                                  create_dir_all_error(disk, dirs, out_dir(cur_path))[1],
                                  out_dir(cur_path)))
       \/ /\ dirs' = dirs
          /\ Return(question_mark("create_dir_all", "io", out_dir(cur_path)))
    /\ UNCHANGED <<recordVars, root, walk, disk, calls, run, prev>>

\* File::create(&*out_path).with_context(...)?
Create ==
    /\ pc = "create"
    /\ \/ /\ File_create_error(disk, dirs, out_file(cur_path)) = None
          /\ disk' = File_create(disk, out_file(cur_path))
          /\ Succeed("create")
       \/ /\ File_create_error(disk, dirs, out_file(cur_path)) # None
          /\ disk' = disk
          /\ Return(with_context("create",
                                 File_create_error(disk, dirs, out_file(cur_path))[1],
                                 out_file(cur_path)))
       \/ /\ disk' = disk
          /\ Return(with_context("create", "io", out_file(cur_path)))
    /\ UNCHANGED <<recordVars, root, walk, dirs, calls, run, prev>>

\* filename_to_module(entry.path().to_str().ok_or_else(...)?)
Name ==
    /\ pc = "name"
    /\ IF to_str(cur_path) = None
       THEN Return(question_mark("name", "Non-UTF-8 filename", cur_path))
       ELSE Succeed("name")
    /\ UNCHANGED <<recordVars, root, walk, disk, dirs, calls, run, prev>>

\* The page of the current file, as generate() writes it when nothing fails.
page(r, e) ==
    generate(filename_to_module(entry_path(r, e)), TypOf(e.text), MetaOf(e.text))

\* generate(&mut doc_file, &name, &typ, &meta)?: the renderer writes the page
\* to the file, or fails after it has written a part of it.
Generate ==
    /\ pc = "generate"
    /\ \/ /\ disk' = write(disk, out_file(cur_path), page(root, entry))
          /\ Succeed("generate")
       \/ \E n \in 0..(Len(page(root, entry)) - 1) :
             /\ disk' = write(disk, out_file(cur_path), SubSeq(page(root, entry), 1, n))
             /\ Return(question_mark("generate", "io", out_file(cur_path)))
    /\ UNCHANGED <<recordVars, root, walk, dirs, calls, run, prev>>

\* generate_for_path() is called again, on the same tree.
StartRun ==
    /\ pc = "done" /\ run < MaxRuns
    /\ run' = run + 1
    /\ prev' = [result |-> result, disk |-> disk]
    /\ idx' = 1
    /\ pc' = "loop"
    /\ result' = Running
    /\ UNCHANGED <<recordVars, root, walk, disk, dirs, calls>>

-----------------------------------------------------------------------------
(* record() applied to every input *)

InitRecord ==
    /\ typ \in RecordTypes
    /\ meta \in Metadatas
    /\ rec = None

CallRecord ==
    /\ rec = None
    /\ rec' = Some(record(typ, meta))
    /\ UNCHANGED <<typ, meta, pathVars>>

-----------------------------------------------------------------------------
(* The specifications *)

Init ==
    /\ InitPath
    /\ typ = [type_fields |-> <<>>, row |-> <<>>]
    /\ meta = [module |-> <<>>]
    /\ rec = None

Next ==
    \/ LoopEnd
    \/ WalkError
    \/ Skip
    \/ Select
    \/ Open
    \/ Read
    \/ Typecheck
    \/ CreateDirAll
    \/ Create
    \/ Name
    \/ Generate
    \/ StartRun

Spec == Init /\ [][Next]_vars

IdlePath ==
    /\ root = OutRoot
    /\ walk = <<>>
    /\ idx = 1
    /\ pc = "done"
    /\ result = Running
    /\ disk = <<>>
    /\ dirs = {}
    /\ calls = {}
    /\ run = 1
    /\ prev = [result |-> Running, disk |-> <<>>]

RecordInit == InitRecord /\ IdlePath

RecordNext == CallRecord

SpecRecord == RecordInit /\ [][RecordNext]_vars

-----------------------------------------------------------------------------
(* Properties of record(), checked under SpecRecord *)

Fields(r) ==
    { r.types[i] : i \in 1..Len(r.types) } \cup { r.values[i] : i \in 1..Len(r.values) }

HasComment(name) ==
    name \in DOMAIN meta.module /\ meta.module[name].comment # None

\* C3: record() returns one Field per type field, in declaration order, and
\* one Field per row entry, in row order: position i of each list carries the
\* name of position i of the input; nothing is sorted, dropped or deduplicated.
C3_OrderPreserved ==
    rec # None =>
        /\ Len(rec[1].types) = Len(typ.type_fields)
        /\ \A i \in 1..Len(typ.type_fields) : rec[1].types[i].name = typ.type_fields[i].name
        /\ Len(rec[1].values) = Len(typ.row)
        /\ \A i \in 1..Len(typ.row) : rec[1].values[i].name = typ.row[i].name

\* The type fields are declared out of name order and the row has one name twice.
C3_Witness ==
    /\ rec # None
    /\ Len(typ.type_fields) = 2
    /\ typ.type_fields[1].name = "bar" /\ typ.type_fields[2].name = "Foo"
    /\ Len(typ.row) = 2
    /\ typ.row[1].name = typ.row[2].name
    /\ Len(rec[1].values) = 2

\* C4 as stated: a Field's comment is "" if and only if the metadata has no
\* entry for its name or the entry has no comment; in every other case it is
\* the entry's comment and is not "".
C4_EmptyIffAbsent ==
    rec # None =>
        \A f \in Fields(rec[1]) :
            /\ (f.comment = "") <=> ~HasComment(f.name)
            /\ HasComment(f.name) =>
                  f.comment = meta.module[f.name].comment[1] /\ f.comment # ""

\* C4 as amended: a Field's comment is the entry's comment text when the
\* metadata has an entry for its name and the entry has a comment (a text that
\* may itself be ""), and "" when there is no entry or no comment.
C4_CommentOrEmpty ==
    rec # None =>
        \A f \in Fields(rec[1]) :
            f.comment = IF HasComment(f.name)
                        THEN meta.module[f.name].comment[1]
                        ELSE ""

\* One Field with a comment text, one whose entry has the empty text as its
\* comment.
C4_Witness ==
    /\ rec # None
    /\ \E f \in Fields(rec[1]) : HasComment(f.name) /\ f.comment = "the foo"
    /\ \E f \in Fields(rec[1]) :
          HasComment(f.name) /\ meta.module[f.name].comment = Some("") /\ f.comment = ""

\* C5: every Field of the types list carries the unresolved text of its type
\* field, every Field of the values list the resolved text of its row entry,
\* also when the two share a name.
C5_TypeTexts ==
    rec # None =>
        /\ \A i \in 1..Len(rec[1].types) :
              rec[1].types[i].typ = typ.type_fields[i].typ.unresolved
        /\ \A i \in 1..Len(rec[1].values) :
              rec[1].values[i].typ = typ.row[i].typ.resolved

\* A type field and a value field of one name and one aliased type come out
\* as two Fields with different type texts.
C5_Witness ==
    /\ rec # None
    /\ Len(typ.type_fields) >= 1 /\ Len(typ.row) >= 1
    /\ typ.type_fields[1] = typ.row[1]
    /\ typ.row[1].typ.unresolved # typ.row[1].typ.resolved
    /\ rec[1].types[1].name = rec[1].values[1].name
    /\ rec[1].types[1].typ # rec[1].values[1].typ

\* C10: any two Fields of one Record with the same name carry the same
\* comment, whichever list they are in and whatever their types.
C10_SameNameSameComment ==
    rec # None =>
        \A f, g \in Fields(rec[1]) : f.name = g.name => f.comment = g.comment

\* A type field and a value field share a commented name and differ in type.
C10_Witness ==
    /\ rec # None
    /\ \E i \in 1..Len(rec[1].types), j \in 1..Len(rec[1].values) :
          /\ rec[1].types[i].name = rec[1].values[j].name
          /\ rec[1].types[i].typ # rec[1].values[j].typ
          /\ rec[1].types[i].comment = "the foo"

-----------------------------------------------------------------------------
(* Properties of generate_for_path(), checked under Spec *)

Docs == { i \in 1..Len(walk) : is_documentable(walk[i]) }

OutOf(i) == Resolve(out_file(entry_path(root, walk[i])))

Aborted(stage) == pc = "done" /\ result.status = "Err" /\ result.stage = stage

\* C1: when the type check of the k-th file fails, the run returns the error
\* with nothing after that file processed; the pages of the files before it
\* exist and are complete, and no page exists for it or for any later file.
C1_TypecheckAbort ==
    Aborted("typecheck") =>
        /\ idx \in Docs
        /\ \A i \in Docs :
              IF i < idx
              THEN OutOf(i) \in DOMAIN disk /\ disk[OutOf(i)] = page(root, walk[i])
              ELSE OutOf(i) \notin DOMAIN disk
        /\ \A c \in calls :
              \E i \in Docs : i <= idx /\ c.path = entry_path(root, walk[i])

\* The second of three modules fails the type check.
C1_Witness ==
    /\ Aborted("typecheck")
    /\ \E i, j \in Docs : i < idx /\ idx < j
    /\ \E i \in Docs : i < idx /\ OutOf(i) \in DOMAIN disk

\* C2 as stated: after a successful run the pages written are exactly the
\* files outputRoot / r, r the path relative to the input root of a
\* documentable file, with the extension replaced.
C2_MirroredUnderOutRoot ==
    (pc = "done" /\ result = Ok) =>
        DOMAIN disk =
            { Resolve(join(OutRoot, with_extension(Path(FALSE, walk[i].rel), "html"))) :
                i \in Docs }

\* C6 as stated: every error raised while a file is processed names the
\* path: open, read, type check, directory creation, output-file creation.
C6_ErrorsAnnotated ==
    (pc = "done" /\ result.status = "Err"
        /\ result.stage \in {"open", "read", "typecheck", "create_dir_all", "create"})
    => result.context # None

\* C7: a run after a successful run on the same tree ends Ok, unless the
\* operating system fails one of its operations, although every directory and
\* page exists already; the pages and their content are then as before.
C7_RerunIdempotent ==
    (run >= 2 /\ pc = "done" /\ prev.result = Ok) =>
        \/ result = Ok /\ disk = prev.disk
        \/ result.status = "Err" /\ result.kind = "io"

\* A second run over two pages in a nested directory ends Ok.
C7_Witness ==
    /\ run = 2 /\ pc = "done" /\ prev.result = Ok /\ result = Ok
    /\ Cardinality(DOMAIN disk) >= 2
    /\ Cardinality(dirs) >= 3
    /\ disk = prev.disk

\* C8 as stated: the type checker is called with a module name derived from
\* the file's path, so files at different paths are checked under different
\* names.
C8_ModuleNameFromPath ==
    /\ \A c \in calls :
          to_str(c.path) # None => c.module = filename_to_module(to_str(c.path)[1])
    /\ \A c, d \in calls : c.path # d.path => c.module # d.module

\* C9 as stated, for the states after a run: a page exists only if it holds
\* the complete text rendered for its input.
C9_NoPartialOutput ==
    pc = "done" =>
        \A p \in DOMAIN disk :
            \E i \in Docs : OutOf(i) = p /\ disk[p] = page(root, walk[i])

====
